---- MODULE Spec2Model ----
(***************************************************************************)
(* The Express REST demo of http-demo/server.js: an in-memory collection   *)
(* of items, an id counter, and the route handlers registered on the app.  *)
(*                                                                         *)
(* Representation.                                                         *)
(*  - A JavaScript string is a sequence of one-character strings, so that  *)
(*    trim(), Number() and template literals are computed, not assumed.    *)
(*  - A JavaScript number is a record [k, v]: k is "fin", "nan", "inf" or  *)
(*    "ninf", and v is the value in hundredths (4.5 is 450, the id 3 is    *)
(*    300).  All numbers of the model have at most two decimals.           *)
(*  - A JavaScript value (a field of a parsed body) is a record            *)
(*    [t, b, n, s]: t is the typeof-like tag, b the boolean, n the number, *)
(*    s the string (for an array: the string Array.prototype.toString      *)
(*    gives, which is all Number() reads of it; for an object: b tells    *)
(*    whether it converts to a primitive, and s is the string its          *)
(*    toString gives).                                                     *)
(***************************************************************************)
EXTENDS Integers, Sequences, FiniteSets, TLC

VARIABLES items, nextId, issued, created, deleted, creates, deletes, conns

vars == <<items, nextId, issued, created, deleted, creates, deletes, conns>>

(***************************************************************************)
(* Bounds of the model.                                                    *)
(***************************************************************************)
\* Create is not taken once the counter has reached this value.
NextIdCap == 5

\* The connections that can be open at once.
NumClients == 2

(***************************************************************************)
(* The shapes of the records of the model.  Every record is built by one   *)
(* of these constructors (or from one, by EXCEPT).                         *)
(***************************************************************************)
\* What a handler leaves: the collection, the counter and the response.
Out(its, nid, r) == [items |-> its, nextId |-> nid, res |-> r]

\* A JavaScript number.
JSNumber(kind, hundredths) == [k |-> kind, v |-> hundredths]

\* A JavaScript value.
JSValue(tag, bool, num, str) == [t |-> tag, b |-> bool, n |-> num, s |-> str]

\* An element of items: { id, name, price }.
Item(i, n, p) == [id |-> i, name |-> n, price |-> p]

\* A parsed body: express.json() leaves an object; an absent field reads as
\* undefined.
Body(n, p, i) == [id |-> i, name |-> n, price |-> p]

\* A request: the method, the path as its first segment (base) and its second
\* (id, the empty string when the path has none), the media ranges of the
\* Accept header (the empty set when the header is absent) and the body.
Request(m, b, i, a, bd) == [id |-> i, method |-> m, base |-> b, accept |-> a, body |-> bd]

\* A message of an error body: its fixed text and, for
\* `No item with id ${id}`, the rendered id.
Message(text, rendered) == [tmpl |-> text, arg |-> rendered]

\* The body of a response.
ResBody(its, knd, it, err, msg, cnt, rq) ==
    [items |-> its, kind |-> knd, item |-> it, error |-> err, message |-> msg,
     count |-> cnt, echo |-> rq]

\* A response: the handler that produced it, the status, the headers the
\* handlers set (absent ones are empty), the body, and the number of times
\* the control path that produced it sends a response (a call of send,
\* json, end or sendStatus).
ResponseOf(bd, h, st, dm, loc, alw, iid, inm, ct, n) ==
    [body |-> bd, handler |-> h, status |-> st, demo |-> dm, location |-> loc,
     allow |-> alw, itemId |-> iid, itemName |-> inm, ctype |-> ct, sends |-> n]

\* A registered route.
Route(m, b, i, h) == [method |-> m, base |-> b, handler |-> h, hasId |-> i]

\* A connection: where its request is (pc), the request, the response once
\* its handler has run, and the value the counter had when the request
\* arrived.
Conn(rs, p, rq, sn) == [res |-> rs, pc |-> p, req |-> rq, seen |-> sn]

(***************************************************************************)
(* JavaScript numbers.                                                     *)
(***************************************************************************)
NaN == JSNumber("nan", 0)

PosInf == JSNumber("inf", 0)

NegInf == JSNumber("ninf", 0)

\* The finite number h/100.
Fin(h) == JSNumber("fin", h)

\* The integer i as a JavaScript number.
Int2Num(i) == Fin(i * 100)

\* Number.isFinite(n)
IsFinite(n) == n.k = "fin"

\* n < 0 (false for NaN, as every comparison with NaN is)
LessThanZero(n) == \/ n.k = "ninf"
                   \/ n.k = "fin" /\ n.v < 0

\* n is an integer greater than 0
IsPositiveInteger(n) == n.k = "fin" /\ n.v > 0 /\ n.v % 100 = 0

(***************************************************************************)
(* JavaScript strings.                                                     *)
(***************************************************************************)
DigitChars == <<"0", "1", "2", "3", "4", "5", "6", "7", "8", "9">>

IsDigit(c) == \E i \in 1..10 : DigitChars[i] = c

DigitVal(c) == (CHOOSE i \in 1..10 : DigitChars[i] = c) - 1

\* The white space and line terminators String.prototype.trim removes.
IsWhiteSpace(c) == c \in {" ", "\t", "\n", "\r"}

RECURSIVE TrimStart(_)
TrimStart(s) == IF s # <<>> /\ IsWhiteSpace(Head(s)) THEN TrimStart(Tail(s)) ELSE s

RECURSIVE TrimEnd(_)
TrimEnd(s) == IF s # <<>> /\ IsWhiteSpace(s[Len(s)])
              THEN TrimEnd(SubSeq(s, 1, Len(s) - 1))
              ELSE s

\* String.prototype.trim
JSTrim(s) == TrimEnd(TrimStart(s))

AllDigits(s) == \A i \in 1..Len(s) : IsDigit(s[i])

RECURSIVE DigitsVal(_)
DigitsVal(s) == IF s = <<>> THEN 0
                ELSE DigitsVal(SubSeq(s, 1, Len(s) - 1)) * 10 + DigitVal(s[Len(s)])

\* The decimal digits of the natural number n.
RECURSIVE NatToDigits(_)
NatToDigits(n) == IF n < 10 THEN <<DigitChars[n + 1]>>
                  ELSE NatToDigits(n \div 10) \o <<DigitChars[(n % 10) + 1]>>

InfinityStr == <<"I", "n", "f", "i", "n", "i", "t", "y">>

NaNStr == <<"N", "a", "N">>

\* digits "." digits with a digit on one side at least, and two decimals at
\* most (more are outside the strings the model draws).
Decimal(ip, fp) ==
    IF AllDigits(ip) /\ AllDigits(fp) /\ Len(ip) + Len(fp) > 0 /\ Len(fp) <= 2
    THEN Fin(DigitsVal(ip) * 100 + (IF Len(fp) = 1 THEN DigitsVal(fp) * 10 ELSE DigitsVal(fp)))
    ELSE NaN

\* The index of the first "." of u, 0 if it has none.
FirstDot(u) ==
    IF \A i \in 1..Len(u) : u[i] # "." THEN 0
    ELSE CHOOSE i \in 1..Len(u) : u[i] = "." /\ \A j \in 1..(i - 1) : u[j] # "."

SplitAt(u, d) == IF d = 0 THEN Decimal(u, <<>>)
                 ELSE Decimal(SubSeq(u, 1, d - 1), SubSeq(u, d + 1, Len(u)))

\* An unsigned StrDecimalLiteral or Infinity; exponents and hexadecimal
\* literals are outside the strings the model draws.
UnsignedToNumber(u) ==
    IF u = InfinityStr THEN PosInf
    ELSE IF u = <<>> \/ u = <<".">> THEN NaN
    ELSE SplitAt(u, FirstDot(u))

\* -m
Negate(m) == IF m.k = "inf" THEN NegInf
             ELSE IF m.k = "ninf" THEN PosInf
             ELSE IF m.k = "fin" THEN Fin(0 - m.v)
             ELSE m

\* The number a trimmed string stands for: the empty string is 0.
TrimmedToNumber(t) ==
    IF t = <<>> THEN Fin(0)
    ELSE IF Head(t) = "-" THEN Negate(UnsignedToNumber(Tail(t)))
    ELSE IF Head(t) = "+" THEN UnsignedToNumber(Tail(t))
    ELSE UnsignedToNumber(t)

\* Number(s) of a string: white space is trimmed, the empty string is 0,
\* a signed decimal or Infinity is its value, anything else is NaN.
ParseNumber(s) == TrimmedToNumber(JSTrim(s))

\* The path segments that stand for ids: the digits of the ids the counter
\* can give, one with a leading zero and one that is no number.
IdStrings == {NatToDigits(i) : i \in 1..(NextIdCap - 1)} \cup {<<"0", "1">>, <<"a", "b", "c">>}

\* Number(s) of each of them, worked out once.
IdNumbers == [s \in IdStrings |-> ParseNumber(s)]

\* Number(s): looked up for a path segment, worked out for any other string.
StringToNumber(s) == IF s \in IdStrings THEN IdNumbers[s] ELSE ParseNumber(s)

\* String(n), as a template literal renders a number.
NumberToString(n) ==
    IF n.k = "nan" THEN NaNStr
    ELSE IF n.k = "inf" THEN InfinityStr
    ELSE IF n.k = "ninf" THEN <<"-">> \o InfinityStr
    ELSE LET a == IF n.v < 0 THEN 0 - n.v ELSE n.v
             ip == NatToDigits(a \div 100)
             f == a % 100
             fp == IF f = 0 THEN <<>>
                   ELSE IF f % 10 = 0 THEN <<".", DigitChars[(f \div 10) + 1]>>
                   ELSE <<".", DigitChars[(f \div 10) + 1], DigitChars[(f % 10) + 1]>>
         IN  (IF n.v < 0 THEN <<"-">> ELSE <<>>) \o ip \o fp

(***************************************************************************)
(* JavaScript values.                                                      *)
(***************************************************************************)
Undefined == JSValue("undefined", FALSE, NaN, <<>>)

Null == JSValue("null", FALSE, NaN, <<>>)

Bool(x) == JSValue("boolean", x, NaN, <<>>)

Num(x) == JSValue("number", FALSE, x, <<>>)

Str(x) == JSValue("string", FALSE, NaN, x)

\* An array whose toString() is x ([] gives the empty string).
Arr(x) == JSValue("array", FALSE, NaN, x)

\* A plain object: Object.prototype.toString gives "[object Object]".
Obj == JSValue("object", TRUE, NaN,
               <<"[", "o", "b", "j", "e", "c", "t", " ", "O", "b", "j", "e", "c", "t", "]">>)

\* An object with an own toString that is no function, as JSON.parse gives
\* for {"toString": "x"}: the inherited valueOf returns the object itself
\* and toString cannot be called, so it converts to no primitive.
ObjNoPrimitive == JSValue("object", FALSE, NaN, <<>>)

\* Number(value) throws TypeError: Cannot convert object to primitive value
NumberThrows(val) == val.t = "object" /\ ~val.b

\* Number(value), where it does not throw
ToNumber(val) ==
    CASE val.t = "undefined" -> NaN
      [] val.t = "null" -> Fin(0)
      [] val.t = "boolean" -> IF val.b THEN Int2Num(1) ELSE Fin(0)
      [] val.t = "number" -> val.n
      [] val.t = "string" -> StringToNumber(val.s)
      [] val.t = "array" -> StringToNumber(val.s)
      [] val.t = "object" -> IF val.b THEN StringToNumber(val.s) ELSE NaN
      [] OTHER -> NaN

(***************************************************************************)
(* The in-memory "database": its initial contents and lookups.             *)
(***************************************************************************)
Notebook == <<"N", "o", "t", "e", "b", "o", "o", "k">>

Pen == <<"P", "e", "n">>

\* const items = [ {id: 1, Notebook, 4.5}, {id: 2, Pen, 1.25} ]
SeedItems == << Item(Int2Num(1), Notebook, Fin(450)),
                Item(Int2Num(2), Pen, Fin(125)) >>

\* let nextId = 3
SeedNextId == Int2Num(3)

\* What a response carries when it carries no item.
NoItem == Item(NaN, <<>>, NaN)

\* items.findIndex((x) => x.id === id); 0 stands for -1 (indices are from 1).
\* NaN === NaN is false, and no stored id is NaN.
FirstOf(hits) == IF hits = {} THEN 0 ELSE CHOOSE i \in hits : \A j \in hits : i <= j

FindIndex(its, id) == FirstOf({i \in 1..Len(its) : id.k # "nan" /\ its[i].id = id})

\* findItem(id): the index of the item found, 0 for undefined.  The handlers
\* hold a reference to the element, so an assignment to existing.name is an
\* assignment to items[index].name.
findItem(its, id) == FindIndex(its, id)

\* A slip: items.splice(idx), which removes the element found and all after.
SpliceRest(its, idx) == SubSeq(its, 1, idx - 1)

\* A slip: the element found is not removed.
SpliceNone(its, idx) == its

\* A slip: items.unshift(item), the item is put first.
Unshift(its, item) == <<item>> \o its

\* items.push(item)
Push(its, item) == Append(its, item)

\* A slip: the element after the one found is removed.
SpliceNext(its, idx) == SubSeq(its, 1, idx) \o SubSeq(its, idx + 2, Len(its))

\* items.splice(idx, 1)
Splice(its, idx) == SubSeq(its, 1, idx - 1) \o SubSeq(its, idx + 1, Len(its))

(***************************************************************************)
(* Requests and responses.                                                 *)
(***************************************************************************)
\* The body of a request that sent none: express.json() leaves {}.
EmptyBody == Body(Undefined, Undefined, Undefined)

NoRequest == Request("", "", <<>>, {}, EmptyBody)

NoMessage == Message("", <<>>)

NoBody == ResBody(<<>>, "none", NoItem, "", NoMessage, 0, NoRequest)

\* res.json(item)
ItemBody(it) == [NoBody EXCEPT !.kind = "item", !.item = it]

\* res.json({ error, message })
ErrorBody(e, text, rendered) ==
    [NoBody EXCEPT !.kind = "error", !.error = e, !.message = Message(text, rendered)]

\* A slip: the count is taken to be the id of the last item.
ListBodyCountByLastId(its) ==
    [NoBody EXCEPT !.kind = "list",
                   !.count = IF its = <<>> THEN 0 ELSE its[Len(its)].id.v \div 100,
                   !.items = its]

\* res.json({ count: items.length, items })
ListBody(its) == [NoBody EXCEPT !.kind = "list", !.count = Len(its), !.items = its]

\* A fixed text: the index in one of its formats, the page, a status text.
TextBody(k) == [NoBody EXCEPT !.kind = k]

\* A response before any header is set, sent by one call.  handler names
\* the callback that produced it.
Response(h, st, bd) == ResponseOf(bd, h, st, "", <<>>, "", <<>>, <<>>, "", 1)

\* What Express answers when the callback h throws: no error-handling
\* middleware is registered, so its final handler sends 500 with an HTML
\* page.
Thrown(h) == [Response(h, 500, TextBody("error-html")) EXCEPT !.ctype = "text/html"]

\* No response: nothing has been sent.
NoResponse == ResponseOf(NoBody, "", 0, "", <<>>, "", <<>>, <<>>, "", 0)

\* A connection with no request on it.
IdleConn == Conn(NoResponse, "idle", NoRequest, SeedNextId)

Clients == 1..NumClients

NotFoundMessage(id) == ErrorBody("not_found", "No item with id ", NumberToString(id))

ItemsPath == <<"/", "i", "t", "e", "m", "s", "/">>

(***************************************************************************)
(* Validation, as the handlers write it.                                   *)
(***************************************************************************)
\* typeof name !== 'string' || name.trim() === ''
NameInvalid(name) == name.t # "string" \/ JSTrim(name.s) = <<>>

\* A slip: the sign of the price is not looked at.
PriceInvalidNoSign(numericPrice) == ~IsFinite(numericPrice)

\* !Number.isFinite(numericPrice) || numericPrice < 0
PriceInvalid(numericPrice) == ~IsFinite(numericPrice) \/ LessThanZero(numericPrice)

\* A slip: the name is stored as it came.
StoredNameRaw(name) == name.s

\* name.trim(), the name that is stored
StoredName(name) == JSTrim(name.s)

\* A slip: ++nextId, the value is the counter after the increment.
IssueIdPreIncrement(nid) == Fin(nid.v + 100)

\* nextId++ : the value is the counter before the increment
IssueId(nid) == nid

\* A slip: the counter is read and not advanced.
AdvanceNot(nid) == nid

\* A slip: nextId--
AdvanceBack(nid) == Fin(nid.v - 100)

\* A slip: the counter is advanced twice.
AdvanceTwice(nid) == Fin(nid.v + 200)

\* nextId++ : the counter after the increment
Advance(nid) == Fin(nid.v + 100)

\* A slip: every field of the body is copied onto the item, its id included.
AssignAll(its, existing, body) ==
    [its EXCEPT ![existing].id = IF body.id.t = "number" THEN body.id.n ELSE @,
                ![existing].name = StoredName(body.name),
                ![existing].price = ToNumber(body.price)]

\* A slip: existing.price += numericPrice
AssignAddPrice(its, existing, body) ==
    [its EXCEPT ![existing].name = StoredName(body.name),
                ![existing].price = Fin(@.v + ToNumber(body.price).v)]

\* A slip: items[0] is assigned to, not the item found.
AssignFirst(its, existing, body) ==
    [its EXCEPT ![1].name = StoredName(body.name),
                ![1].price = ToNumber(body.price)]

\* existing.name = name.trim(); existing.price = numericPrice
AssignBoth(its, existing, body) ==
    [its EXCEPT ![existing].name = StoredName(body.name),
                ![existing].price = ToNumber(body.price)]

(***************************************************************************)
(* The route handlers.  Each takes the collection, the counter and the     *)
(* request, and gives the collection, the counter and the response it      *)
(* leaves.                                                                 *)
(***************************************************************************)
\* A slip: the type has to be listed itself.
AcceptsExact(r, type, range) == type \in r.accept

\* req.accepts(type): with no Accept header every type is acceptable;
\* otherwise the type, its type/* range or */* has to be listed.
Accepts(r, type, range) == r.accept = {} \/ type \in r.accept \/ range \in r.accept
                                        \/ "*/*" \in r.accept

\* app.get('/')
rootHandler(its, nid, r) ==
    Out(its, nid,
        IF Accepts(r, "text/plain", "text/*")
        THEN [Response("root", 200, TextBody("index-text")) EXCEPT !.ctype = "text/plain"]
        ELSE IF Accepts(r, "application/json", "application/*")
        THEN [Response("root", 200, TextBody("index-json")) EXCEPT !.ctype = "application/json"]
        ELSE IF Accepts(r, "application/xml", "application/*")
        THEN [Response("root", 200, TextBody("index-xml")) EXCEPT !.ctype = "application/xml"]
        ELSE IF Accepts(r, "text/html", "text/*")
        THEN [Response("root", 200, TextBody("index-html")) EXCEPT !.ctype = "text/html"]
        ELSE [Response("root", 406, TextBody("status-text")) EXCEPT !.ctype = "text/plain"])

\* app.get('/page')
pageHandler(its, nid, r) ==
    Out(its, nid, [Response("page", 200, TextBody("page")) EXCEPT !.ctype = "text/html"])

\* app.all('/echo')
echoHandler(its, nid, r) ==
    Out(its, nid,
        [Response("echo", 200, [NoBody EXCEPT !.kind = "echo", !.echo = r])
            EXCEPT !.demo = "echo", !.ctype = "application/json"])

\* A slip: items.reverse(), which reverses the collection in place.
listHandlerReversing(its, nid, r) ==
    Out([i \in 1..Len(its) |-> its[Len(its) + 1 - i]], nid,
        [Response("list", 200, ListBody([i \in 1..Len(its) |-> its[Len(its) + 1 - i]]))
            EXCEPT !.demo = "items-list", !.ctype = "application/json"])

\* app.get('/items')
listHandler(its, nid, r) ==
    Out(its, nid,
        [Response("list", 200, ListBody(its))
            EXCEPT !.demo = "items-list", !.ctype = "application/json"])

\* A slip: no return before the 404, so the callback goes on and sends
\* again.
getHandlerNoReturn(its, nid, r) ==
    IF findItem(its, StringToNumber(r.id)) = 0
    THEN Out(its, nid,
             [Response("get", 404, NotFoundMessage(StringToNumber(r.id)))
                 EXCEPT !.ctype = "application/json", !.sends = 2])
    ELSE Out(its, nid,
             [Response("get", 200, ItemBody(its[findItem(its, StringToNumber(r.id))]))
                 EXCEPT !.demo = "items-get", !.ctype = "application/json"])

\* app.get('/items/:id')
getHandler(its, nid, r) ==
    LET id == StringToNumber(r.id)
        item == findItem(its, id)
    IN  IF item = 0
        THEN Out(its, nid,
                 [Response("get", 404, NotFoundMessage(id)) EXCEPT !.ctype = "application/json"])
        ELSE Out(its, nid,
                 [Response("get", 200, ItemBody(its[item]))
                     EXCEPT !.demo = "items-get", !.ctype = "application/json"])

\* app.head('/items/:id')
headHandler(its, nid, r) ==
    LET id == StringToNumber(r.id)
        item == findItem(its, id)
    IN  IF item = 0
        THEN Out(its, nid,
                 [Response("head", 404, TextBody("status-text")) EXCEPT !.ctype = "text/plain"])
        ELSE Out(its, nid,
                 [Response("head", 200, NoBody)
                     EXCEPT !.itemId = NumberToString(its[item].id),
                            !.itemName = its[item].name])

\* app.post('/items')
createHandler(its, nid, r) ==
    LET name == r.body.name
        price == r.body.price
        numericPrice == ToNumber(price)
        item == Item(IssueId(nid), StoredName(name), numericPrice)
    IN  IF NameInvalid(name)
        THEN Out(its, nid,
                 [Response("create", 400,
                           ErrorBody("bad_request", "name is required (string)", <<>>))
                     EXCEPT !.ctype = "application/json"])
        ELSE IF NumberThrows(price)
        THEN Out(its, nid, Thrown("create"))
        ELSE IF PriceInvalid(numericPrice)
        THEN Out(its, nid,
                 [Response("create", 400,
                           ErrorBody("bad_request", "price must be a non-negative number", <<>>))
                     EXCEPT !.ctype = "application/json"])
        ELSE Out(Push(its, item), Advance(nid),
                 [Response("create", 201, ItemBody(item))
                     EXCEPT !.demo = "items-create",
                            !.location = ItemsPath \o NumberToString(item.id),
                            !.ctype = "application/json"])

\* app.put('/items/:id')
putHandler(its, nid, r) ==
    LET id == StringToNumber(r.id)
        existing == findItem(its, id)
        name == r.body.name
        price == r.body.price
        numericPrice == ToNumber(price)
        after == AssignBoth(its, existing, r.body)
    IN  IF existing = 0
        THEN Out(its, nid,
                 [Response("put", 404, NotFoundMessage(id)) EXCEPT !.ctype = "application/json"])
        ELSE IF NameInvalid(name)
        THEN Out(its, nid,
                 [Response("put", 400,
                           ErrorBody("bad_request", "name is required (string)", <<>>))
                     EXCEPT !.ctype = "application/json"])
        ELSE IF NumberThrows(price)
        THEN Out(its, nid, Thrown("put"))
        ELSE IF PriceInvalid(numericPrice)
        THEN Out(its, nid,
                 [Response("put", 400,
                           ErrorBody("bad_request", "price must be a non-negative number", <<>>))
                     EXCEPT !.ctype = "application/json"])
        ELSE Out(after, nid,
                 [Response("put", 200, ItemBody(after[existing]))
                     EXCEPT !.demo = "items-put", !.ctype = "application/json"])

\* app.patch('/items/:id'): the name is validated and assigned before the
\* price is looked at, so also before Number(price) can throw.
patchHandler(its, nid, r) ==
    LET id == StringToNumber(r.id)
        existing == findItem(its, id)
        name == r.body.name
        price == r.body.price
        numericPrice == ToNumber(price)
        named == IF name.t # "undefined"
                 THEN [its EXCEPT ![existing].name = StoredName(name)]
                 ELSE its
        priced == IF price.t # "undefined"
                  THEN [named EXCEPT ![existing].price = numericPrice]
                  ELSE named
    IN  IF existing = 0
        THEN Out(its, nid,
                 [Response("patch", 404, NotFoundMessage(id)) EXCEPT !.ctype = "application/json"])
        ELSE IF name.t # "undefined" /\ NameInvalid(name)
        THEN Out(its, nid,
                 [Response("patch", 400,
                           ErrorBody("bad_request", "name must be a non-empty string", <<>>))
                     EXCEPT !.ctype = "application/json"])
        ELSE IF price.t # "undefined" /\ NumberThrows(price)
        THEN Out(named, nid, Thrown("patch"))
        ELSE IF price.t # "undefined" /\ PriceInvalid(numericPrice)
        THEN Out(named, nid,
                 [Response("patch", 400,
                           ErrorBody("bad_request", "price must be a non-negative number", <<>>))
                     EXCEPT !.ctype = "application/json"])
        ELSE Out(priced, nid,
                 [Response("patch", 200, ItemBody(priced[existing]))
                     EXCEPT !.demo = "items-patch", !.ctype = "application/json"])

\* A slip: the splice comes before the check of idx, and items.splice(-1, 1)
\* removes the last item.
deleteHandlerSpliceFirst(its, nid, r) ==
    IF FindIndex(its, StringToNumber(r.id)) = 0
    THEN Out(SubSeq(its, 1, Len(its) - 1), nid,
             [Response("delete", 404, NotFoundMessage(StringToNumber(r.id)))
                 EXCEPT !.ctype = "application/json"])
    ELSE Out(Splice(its, FindIndex(its, StringToNumber(r.id))), nid,
             [Response("delete", 204, NoBody) EXCEPT !.demo = "items-delete"])

\* app.delete('/items/:id')
deleteHandler(its, nid, r) ==
    LET id == StringToNumber(r.id)
        idx == FindIndex(its, id)
    IN  IF idx = 0
        THEN Out(its, nid,
                 [Response("delete", 404, NotFoundMessage(id)) EXCEPT !.ctype = "application/json"])
        ELSE Out(Splice(its, idx), nid,
                 [Response("delete", 204, NoBody) EXCEPT !.demo = "items-delete"])

\* A slip: PUT is listed among the methods of the collection.
optionsHandlerAllowPut(its, nid, r) ==
    Out(its, nid,
        [Response("options", 204, NoBody)
            EXCEPT !.allow = "GET,POST,PUT,OPTIONS", !.demo = "items-options"])

\* A slip: the X-Demo header is left out.
optionsHandlerNoDemo(its, nid, r) ==
    Out(its, nid, [Response("options", 204, NoBody) EXCEPT !.allow = "GET,POST,OPTIONS"])

\* app.options('/items')
optionsHandler(its, nid, r) ==
    Out(its, nid,
        [Response("options", 204, NoBody)
            EXCEPT !.allow = "GET,POST,OPTIONS", !.demo = "items-options"])

\* A slip: res.sendStatus(404), the status text and no JSON body.
defaultHandlerStatusText(its, nid, r) ==
    Out(its, nid, [Response("default", 404, TextBody("status-text")) EXCEPT !.ctype = "text/plain"])

\* app.use((req, res) => ...): the default 404
defaultHandler(its, nid, r) ==
    Out(its, nid,
        [Response("default", 404, ErrorBody("not_found", "Route not found", <<>>))
            EXCEPT !.ctype = "application/json"])

(***************************************************************************)
(* Routing, as Express does it: the routes are tried in the order they     *)
(* were registered and the first that matches the path and handles the     *)
(* method serves the request; the middleware registered last serves what   *)
(* no route did.                                                           *)
(***************************************************************************)
\* The routes of the app, in registration order.
Routes == << Route("GET", "", FALSE, "root"),
             Route("GET", "page", FALSE, "page"),
             Route("ALL", "echo", FALSE, "echo"),
             Route("GET", "items", FALSE, "list"),
             Route("GET", "items", TRUE, "get"),
             Route("HEAD", "items", TRUE, "head"),
             Route("POST", "items", FALSE, "create"),
             Route("PUT", "items", TRUE, "put"),
             Route("PATCH", "items", TRUE, "patch"),
             Route("DELETE", "items", TRUE, "delete"),
             Route("OPTIONS", "items", FALSE, "options") >>

\* A route made by app.get has a get handler and no head handler, and
\* Express lets such a route handle HEAD requests with its get handler.
HandlesMethod(route, method) ==
    \/ route.method = "ALL"
    \/ route.method = method
    \/ method = "HEAD" /\ route.method = "GET"

PathMatches(route, r) == route.base = r.base /\ (route.hasId <=> r.id # <<>>)

\* The handler that serves r.
HandlerAt(i) == IF i = 0 THEN "default" ELSE Routes[i].handler

Dispatch(r) ==
    HandlerAt(FirstOf({i \in 1..Len(Routes) :
                          PathMatches(Routes[i], r) /\ HandlesMethod(Routes[i], r.method)}))

RunHandler(h, its, nid, r) ==
    CASE h = "root" -> rootHandler(its, nid, r)
      [] h = "page" -> pageHandler(its, nid, r)
      [] h = "echo" -> echoHandler(its, nid, r)
      [] h = "list" -> listHandler(its, nid, r)
      [] h = "get" -> getHandler(its, nid, r)
      [] h = "head" -> headHandler(its, nid, r)
      [] h = "create" -> createHandler(its, nid, r)
      [] h = "put" -> putHandler(its, nid, r)
      [] h = "patch" -> patchHandler(its, nid, r)
      [] h = "delete" -> deleteHandler(its, nid, r)
      [] h = "options" -> optionsHandler(its, nid, r)
      [] OTHER -> defaultHandler(its, nid, r)

\* The request served: the response to a HEAD request is sent without the
\* body its handler gave (res.send ends the response with no chunk).
SendFor(r, out) == IF r.method = "HEAD" THEN [out EXCEPT !.res.body = NoBody] ELSE out

Serve(its, nid, r) == SendFor(r, RunHandler(Dispatch(r), its, nid, r))

(***************************************************************************)
(* The inputs the requests are drawn from.                                 *)
(***************************************************************************)
\* Path segments given as ids: every id the counter can issue, an id with a
\* leading zero and one that is no number.
NameInputs == { Undefined, Num(Int2Num(5)), Str(<<" ", " ">>),
                Str(<<" ", "P", "e", "n", " ">>) }

PriceInputs == { Undefined, Null, Bool(FALSE), Num(Fin(0)), Num(Fin(0 - 1)), Num(Fin(275)),
                 Str(<<"a", "b", "c">>), Str(<<>>), Arr(<<>>), Obj, ObjNoPrimitive }

\* Bodies: no name and the valid name with every price, the invalid names
\* with a missing, a valid, a negative and a throwing price, and some bodies
\* that carry an id of their own as well.
Bodies == { Body(n, p, Undefined) :
               n \in {Undefined, Str(<<" ", "P", "e", "n", " ">>)}, p \in PriceInputs }
          \cup { Body(n, p, Undefined) :
                    n \in NameInputs,
                    p \in {Undefined, Num(Fin(275)), Num(Fin(0 - 1)), ObjNoPrimitive} }
          \cup { Body(n, p, Num(Int2Num(9))) :
                    n \in {Undefined, Str(<<" ", "P", "e", "n", " ">>)},
                    p \in {Undefined, Num(Fin(275))} }

\* Bodies of PUT and PATCH: no name and the valid name with a price of
\* each kind (missing, null, negative, valid, not numeric, throwing), the
\* invalid names with a valid and a throwing price, and two bodies that
\* carry an id of their own.
UpdateBodies ==
    { Body(n, p, Undefined) :
         n \in {Undefined, Str(<<" ", "P", "e", "n", " ">>)},
         p \in {Undefined, Null, Num(Fin(0 - 1)), Num(Fin(275)),
                Str(<<"a", "b", "c">>), ObjNoPrimitive} }
    \cup { Body(n, p, Undefined) :
              n \in {Num(Int2Num(5)), Str(<<" ", " ">>)}, p \in {Num(Fin(275)), ObjNoPrimitive} }
    \cup { Body(Undefined, Undefined, Num(Int2Num(9))),
           Body(Str(<<" ", "P", "e", "n", " ">>), Num(Fin(275)), Num(Int2Num(9))) }

AcceptInputs == { {}, {"application/json"}, {"application/xml", "text/html"},
                  {"text/html"}, {"application/x-foo"}, {"*/*"},
                  {"text/*"}, {"application/*"}, {"image/*", "text/html"} }

Methods == {"GET", "HEAD", "POST", "PUT", "PATCH", "DELETE", "OPTIONS"}

RootRequests == { Request("GET", "", <<>>, a, EmptyBody) : a \in AcceptInputs }

PageRequests == { Request("GET", "page", <<>>, {}, EmptyBody) }

EchoRequests == { Request(m, "echo", <<>>, {}, b) :
                    m \in Methods, b \in {EmptyBody, Body(Str(Pen), Num(Fin(275)), Undefined)} }

ListRequests == { Request("GET", "items", <<>>, {}, EmptyBody) }

GetRequests == { Request("GET", "items", i, {}, EmptyBody) : i \in IdStrings }

HeadRequests == { Request("HEAD", "items", i, {}, EmptyBody) : i \in IdStrings }

CreateRequests == { Request("POST", "items", <<>>, {}, b) : b \in Bodies }

ReplaceRequests == { Request("PUT", "items", i, {}, b) : i \in IdStrings, b \in UpdateBodies }

PartialUpdateRequests ==
    { Request("PATCH", "items", i, {}, b) : i \in IdStrings, b \in UpdateBodies }

DeleteRequests == { Request("DELETE", "items", i, {}, EmptyBody) : i \in IdStrings }

OptionsRequests == { Request("OPTIONS", "items", <<>>, {}, EmptyBody) }

\* Requests no route is registered for: the collection with a method of an
\* item, an item with a method of the collection, a path nothing is
\* registered on.
UnmatchedRequests ==
    { Request(m, "items", <<>>, {}, b) :
         m \in {"PUT", "DELETE", "PATCH"},
         b \in {EmptyBody, Body(Str(<<" ", "P", "e", "n", " ">>), Num(Fin(275)), Undefined)} }
    \cup { Request(m, "items", i, {}, b) :
              m \in {"POST", "OPTIONS"}, i \in IdStrings,
              b \in {EmptyBody, Body(Str(<<" ", "P", "e", "n", " ">>), Num(Fin(275)), Undefined)} }
    \cup { Request(m, "nope", <<>>, {}, EmptyBody) : m \in Methods }

(***************************************************************************)
(* The state machine: one step serves one request to completion.  The      *)
(* state is the collection and the counter, and history variables:         *)
(*   issued  every id a Create has handed out so far, and the seeds' ids   *)
(*   created for each created item no PUT, PATCH or DELETE has named       *)
(*           since: its id and the name and price its request asked for    *)
(*   deleted the ids of the items a Delete has removed                     *)
(*   creates the number of Creates answered 201                            *)
(*   deletes the number of Deletes answered 204                            *)
(* conns, the open connections, is used when requests overlap (below).     *)
(* A response is not state: it is what Serve gives for a request in the    *)
(* state the request finds.                                                *)
(***************************************************************************)
Init ==
    /\ items = SeedItems
    /\ nextId = SeedNextId
    /\ issued = {SeedItems[i].id : i \in 1..Len(SeedItems)}
    /\ created = {}
    /\ deleted = {}
    /\ creates = 0
    /\ deletes = 0
    /\ conns = [c \in Clients |-> IdleConn]

IsDeleted(rs) == rs.handler = "delete" /\ rs.status = 204

IsCreated(rs) == rs.handler = "create" /\ rs.status = 201

Targets(r) == r.method \in {"PUT", "PATCH", "DELETE"} /\ r.base = "items" /\ r.id # <<>>

\* The created items r leaves unnamed, and the one it creates.
Remember(r, rs, kept) ==
    IF IsCreated(rs)
    THEN kept \cup {Item(rs.body.item.id, JSTrim(r.body.name.s), ToNumber(r.body.price))}
    ELSE kept

\* The state after r was served with out.
Commit(r, out) ==
    /\ items' = out.items
    /\ nextId' = out.nextId
    /\ issued' = IF IsCreated(out.res) THEN issued \cup {out.res.body.item.id} ELSE issued
    /\ created' = Remember(r, out.res,
                           IF Targets(r)
                           THEN {c \in created : c.id # StringToNumber(r.id)}
                           ELSE created)
    /\ deleted' = IF IsDeleted(out.res) THEN deleted \cup {StringToNumber(r.id)} ELSE deleted
    /\ creates' = IF IsCreated(out.res) THEN creates + 1 ELSE creates
    /\ deletes' = IF IsDeleted(out.res) THEN deletes + 1 ELSE deletes

\* r is served, once, in the state it finds.
Handle(r) == \E out \in {Serve(items, nextId, r)} : Commit(r, out) /\ UNCHANGED conns

Root ==
    /\ \E r \in RootRequests : Handle(r)

Page ==
    /\ \E r \in PageRequests : Handle(r)

Echo ==
    /\ \E r \in EchoRequests : Handle(r)

List ==
    /\ \E r \in ListRequests : Handle(r)

Get ==
    /\ \E r \in GetRequests : Handle(r)

HeadItem ==
    /\ \E r \in HeadRequests : Handle(r)

Create ==
    /\ nextId.v < NextIdCap * 100
    /\ \E r \in CreateRequests : Handle(r)

Replace ==
    /\ \E r \in ReplaceRequests : Handle(r)

PartialUpdate ==
    /\ \E r \in PartialUpdateRequests : Handle(r)

Delete ==
    /\ \E r \in DeleteRequests : Handle(r)

Options ==
    /\ \E r \in OptionsRequests : Handle(r)

Unmatched ==
    /\ \E r \in UnmatchedRequests : Handle(r)

Next == \/ Root \/ Page \/ Echo \/ List \/ Get \/ HeadItem \/ Create
        \/ Replace \/ PartialUpdate \/ Delete \/ Options \/ Unmatched

Spec == Init /\ [][Next]_vars

(***************************************************************************)
(* Requests that overlap.  express.json() reads the body of a request      *)
(* asynchronously, so between the arrival of a request and the run of its  *)
(* route callback the callbacks of other requests can run.  A callback     *)
(* itself has no await and no asynchronous call: once started it runs to   *)
(* its return, which is one step here.  The response it wrote is on its    *)
(* way to the client until Respond.                                        *)
(***************************************************************************)
\* The requests that overlap in the model.
OverlapRequests ==
    { Request("POST", "items", <<>>, {},
              Body(Str(<<" ", "P", "e", "n", " ">>), Num(Fin(275)), Undefined)),
      Request("PUT", "items", <<"1">>, {},
              Body(Str(<<" ", "P", "e", "n", " ">>), Num(Fin(275)), Undefined)),
      Request("DELETE", "items", <<"3">>, {}, EmptyBody),
      Request("GET", "items", <<"3">>, {}, EmptyBody) }

\* A slip: the callback works with the counter as it was when its request
\* arrived.
CounterReadAtArrival(c, nid) == conns[c].seen

\* nextId, read by the callback when it runs
CounterRead(c, nid) == nid

\* The connections whose POST has arrived and whose callback has not run.
CreatesWaiting == {c \in Clients : conns[c].pc = "parsing" /\ conns[c].req.method = "POST"}

\* A request of reqs arrives on c and its body is being read.  (A POST
\* arrives only while the counter, with the POSTs that wait, is below
\* NextIdCap.)
ArriveOf(c, reqs) ==
    /\ conns[c].pc = "idle"
    /\ \E r \in reqs :
          /\ r.method = "POST" =>
                 nextId.v + 100 * Cardinality(CreatesWaiting) < NextIdCap * 100
          /\ conns' = [conns EXCEPT ![c] = Conn(NoResponse, "parsing", r, nextId)]
    /\ UNCHANGED <<items, nextId, issued, created, deleted, creates, deletes>>

Arrive(c) ==
    /\ ArriveOf(c, OverlapRequests)

\* Where the connection is once its callback has returned: answered if the
\* callback sent a response, and waiting for one for ever if it sent none.
AfterCallback(rs) == IF rs.sends = 0 THEN "pending" ELSE "done"

\* The route callback of the request of c runs, from its first statement to
\* its return.
Run(c) ==
    /\ conns[c].pc = "parsing"
    /\ \E out \in {Serve(items, CounterRead(c, nextId), conns[c].req)} :
          /\ Commit(conns[c].req, out)
          /\ conns' = [conns EXCEPT ![c].res = out.res, ![c].pc = AfterCallback(out.res)]

\* The response has reached the client.
Respond(c) ==
    /\ conns[c].pc = "done"
    /\ conns' = [conns EXCEPT ![c] = IdleConn]
    /\ UNCHANGED <<items, nextId, issued, created, deleted, creates, deletes>>

OverlapNext == \E c \in Clients : Arrive(c) \/ Run(c) \/ Respond(c)

OverlapSpec == Init /\ [][OverlapNext]_vars

(***************************************************************************)
(* One request from its arrival to its response, for requests that take    *)
(* every control path.  One connection is followed: the way of a request   *)
(* to its response is one callback, whatever the other connections do.     *)
(***************************************************************************)
\* Ids and bodies that between them take every branch of the callbacks: the
\* id of a seed, of a created item and of no item; no body, a body that is
\* accepted, one with a name that is not, one with a price that is not, one
\* whose price makes Number throw, and one with a name only.
PathIds == {<<"1">>, <<"3">>, <<"a", "b", "c">>}

PathBodies ==
    { EmptyBody,
      Body(Str(<<" ", "P", "e", "n", " ">>), Num(Fin(275)), Undefined),
      Body(Str(<<" ", " ">>), Num(Fin(275)), Undefined),
      Body(Str(<<" ", "P", "e", "n", " ">>), Num(Fin(0 - 1)), Undefined),
      Body(Str(<<" ", "P", "e", "n", " ">>), ObjNoPrimitive, Undefined),
      Body(Str(<<" ", "P", "e", "n", " ">>), Undefined, Undefined) }

\* Requests that take every control path of every callback and of the
\* default 404.
PathRequests ==
    RootRequests \cup PageRequests \cup ListRequests \cup OptionsRequests
    \cup { r \in EchoRequests \cup UnmatchedRequests :
              r.method \in {"GET", "POST"} /\ r.body = EmptyBody /\ r.id \in {<<>>, <<"1">>} }
    \cup { r \in GetRequests \cup HeadRequests \cup DeleteRequests : r.id \in PathIds }
    \cup { r \in CreateRequests : r.body \in PathBodies }
    \cup { r \in ReplaceRequests \cup PartialUpdateRequests :
              r.id \in PathIds /\ r.body \in PathBodies }

\* A request arrives on the connection that is followed.
ArriveAny ==
    /\ ArriveOf(1, PathRequests)

RunIt ==
    /\ Run(1)

RespondIt ==
    /\ Respond(1)

AnswerNext == ArriveAny \/ RunIt \/ RespondIt

\* The event loop runs the callback of every request that has been read:
\* a callback that is ready is not put off for ever.
AnswerSpec == Init /\ [][AnswerNext]_vars /\ WF_vars(RunIt)

(***************************************************************************)
(* Properties.  A property about a request is stated of every request of   *)
(* its family, served in the state it finds: Outcome(r) is the collection, *)
(* the counter and the response that serving r leaves.                     *)
(***************************************************************************)
Outcome(r) == Serve(items, nextId, r)

IdsOf(its) == [i \in 1..Len(its) |-> its[i].id]

IdSet(its) == {its[i].id : i \in 1..Len(its)}

SeedIds == IdSet(SeedItems)

\* a > b, of finite numbers
GreaterThan(a, b) == a.k = "fin" /\ b.k = "fin" /\ a.v > b.v

\* The id a path segment asks for.
AskedId(r) == StringToNumber(r.id)

Present(its, id) == \E i \in 1..Len(its) : its[i].id = id

\* The one item of its with this id.
ItemWith(its, id) == its[CHOOSE i \in 1..Len(its) : its[i].id = id]

\* name is a string that is not empty once trimmed.
ValidName(name) == name.t = "string" /\ JSTrim(name.s) # <<>>

\* price coerces to a finite number >= 0.
ValidPrice(price) ==
    ~NumberThrows(price) /\ ToNumber(price).k = "fin" /\ ToNumber(price).v >= 0

\* C1: in every reachable state the ids of the items of the collection are
\* pairwise distinct.
UniqueIds ==
    \A i, j \in 1..Len(items) : i # j => items[i].id # items[j].id

\* An item was created after a seed item was deleted.
UniqueIdsWitness ==
    /\ Len(items) = 2
    /\ ~Present(items, Int2Num(1))
    /\ Present(items, Int2Num(4))

\* C2: a successful Create returns an id strictly greater than every id issued
\* before it (the seeds' ids and the ids of all created items, deleted ones
\* included), so no id is handed out twice.
CreateIdAboveIssued ==
    \A r \in CreateRequests :
        \A out \in {Outcome(r)} :
            out.res.status = 201 =>
                \A j \in issued : GreaterThan(out.res.body.item.id, j)

\* A created item has been deleted, and a Create succeeds now.
CreateIdAboveIssuedWitness ==
    /\ \E j \in issued \ SeedIds : ~Present(items, j)
    /\ \E r \in CreateRequests : Outcome(r).res.status = 201

\* C3: in every reachable state every item has a positive integer id, a
\* non-empty name with no white space at either end, and a finite price that
\* is not negative, whatever the bodies of the Create, Replace and
\* PartialUpdate requests served so far were.
ItemsWellFormed ==
    \A i \in 1..Len(items) :
        /\ IsPositiveInteger(items[i].id)
        /\ items[i].name # <<>>
        /\ ~IsWhiteSpace(Head(items[i].name))
        /\ ~IsWhiteSpace(items[i].name[Len(items[i].name)])
        /\ items[i].price.k = "fin"
        /\ items[i].price.v >= 0

\* A created item is stored, and the first seed item has been renamed from
\* a body whose name had white space around it.
ItemsWellFormedWitness ==
    /\ \E i \in 1..Len(items) : items[i].id \notin SeedIds
    /\ Present(items, Int2Num(1))
    /\ ItemWith(items, Int2Num(1)).name = Pen

\* C4: Create answers 201 exactly when the name is valid and the price is
\* valid; otherwise it answers 400 bad_request with the message about the
\* name when the name is invalid, and the message about the price otherwise.
CreateStatus ==
    \A r \in CreateRequests :
        IF ValidName(r.body.name) /\ ValidPrice(r.body.price)
        THEN Outcome(r).res.status = 201
        ELSE /\ Outcome(r).res.status = 400
             /\ Outcome(r).res.body.kind = "error"
             /\ Outcome(r).res.body.error = "bad_request"
             /\ Outcome(r).res.body.message.tmpl =
                    (IF ValidName(r.body.name)
                     THEN "price must be a non-negative number"
                     ELSE "name is required (string)")

\* A price that is no number: a missing field, null, a boolean, an array, or a
\* string that is empty or does not read as a number.
NotNumeric(price) ==
    \/ price.t \in {"undefined", "null", "boolean", "array"}
    \/ price.t = "string" /\ (JSTrim(price.s) = <<>> \/ StringToNumber(price.s).k = "nan")

NegativePrice(price) == price.t = "number" /\ price.n.k = "fin" /\ price.n.v < 0

\* The requests of Create and Replace that only their price can fail: the
\* name is valid and, for Replace, the item exists.
PriceDecides(r) ==
    /\ ValidName(r.body.name)
    /\ r.method = "PUT" => Present(items, AskedId(r))

\* C5: Create and Replace accept the price 0, and answer 400 to every negative
\* price and to every price that is not numeric (a non-numeric string, a
\* boolean, null, an empty string, an array, a missing field).
PriceZeroAcceptedOthersRejected ==
    \A r \in CreateRequests \cup ReplaceRequests :
        PriceDecides(r) =>
            /\ r.body.price = Num(Fin(0)) => Outcome(r).res.status \in {200, 201}
            /\ (NegativePrice(r.body.price) \/ NotNumeric(r.body.price))
                   => Outcome(r).res.status = 400

\* C6: a successful Create gives the item the current value of the counter as
\* its id, appends exactly that item {id, trimmed name, numeric price} to the
\* collection, leaving the earlier items as they were, and answers 201 with
\* the item as body and a Location that is /items/ followed by the item's id;
\* the first successful Create after the start gets the id 3.
CreateEffect ==
    \A r \in CreateRequests :
        \A out \in {Outcome(r)} :
            out.res.status = 201 =>
                /\ out.res.body.kind = "item"
                /\ out.res.body.item =
                       Item(nextId, JSTrim(r.body.name.s), ToNumber(r.body.price))
                /\ out.items = Append(items, out.res.body.item)
                /\ Len(out.res.location) > Len(ItemsPath)
                /\ SubSeq(out.res.location, 1, Len(ItemsPath)) = ItemsPath
                /\ AllDigits(SubSeq(out.res.location, Len(ItemsPath) + 1,
                                    Len(out.res.location)))
                /\ StringToNumber(SubSeq(out.res.location, Len(ItemsPath) + 1,
                                         Len(out.res.location)))
                       = out.res.body.item.id
                /\ issued = SeedIds => out.res.body.item.id = Int2Num(3)

\* A Create has succeeded before, after a delete, and one succeeds now.
CreateEffectWitness ==
    /\ issued # SeedIds
    /\ Len(items) < Cardinality(issued)
    /\ \E r \in CreateRequests : Outcome(r).res.status = 201

\* C7: Replace and PartialUpdate leave every id as it was, also when the body
\* carries an id of its own that differs from the id of the path: the ids of
\* the collection are the same, in the same positions, before and after.
IdsImmutable ==
    \A r \in ReplaceRequests \cup PartialUpdateRequests :
        IdsOf(Outcome(r).items) = IdsOf(items)

\* An item has been updated, and a Replace and a PartialUpdate whose bodies
\* carry another id than the path's succeed.
IdsImmutableWitness ==
    /\ \E i \in 1..Len(items) : items[i].id \in SeedIds /\ items[i].price = Fin(275)
    /\ \E r \in ReplaceRequests :
          /\ r.body.id.t = "number" /\ r.body.id.n # AskedId(r)
          /\ Outcome(r).res.status = 200
    /\ \E r \in PartialUpdateRequests :
          /\ r.body.id.t = "number" /\ r.body.id.n # AskedId(r)
          /\ Outcome(r).res.status = 200

\* C8: while no Replace, PartialUpdate or Delete has named a created item, a
\* Get of its id answers 200 with that id, the name its Create was given,
\* trimmed, and the numeric value of the price its Create was given.
RoundTrip ==
    \A c \in created : \A r \in GetRequests :
        AskedId(r) = c.id =>
            /\ Outcome(r).res.status = 200
            /\ Outcome(r).res.body.kind = "item"
            /\ Outcome(r).res.body.item = c

\* Two created items are still as their Creates left them and can be asked
\* for, one of them made from a name with white space around it and a price
\* given as something else than a number.
RoundTripWitness ==
    /\ Cardinality(created) >= 2
    /\ \A c \in created : \E r \in GetRequests : AskedId(r) = c.id
    /\ \E c \in created : c.price = Fin(0)

\* C9: Get answers 200 with the item when an item with the asked id is in the
\* collection, and otherwise, ids that are no numbers included, 404 with the
\* body {error: not_found, message: "No item with id <id>"}, <id> being the
\* id that was asked for.
GetFoundOrNotFound ==
    \A r \in GetRequests :
        IF Present(items, AskedId(r))
        THEN /\ Outcome(r).res.status = 200
             /\ Outcome(r).res.body.kind = "item"
             /\ Outcome(r).res.body.item = ItemWith(items, AskedId(r))
        ELSE /\ Outcome(r).res.status = 404
             /\ Outcome(r).res.body.kind = "error"
             /\ Outcome(r).res.body.error = "not_found"
             /\ Outcome(r).res.body.message = Message("No item with id ", r.id)

\* C10: a HEAD request for an item is answered by the HEAD handler: 200 with
\* X-Item-Id the item's id, X-Item-Name its name and no body if the item
\* exists, 404 with no body if it does not.
HeadAnsweredByHeadHandler ==
    \A r \in HeadRequests :
        IF Present(items, AskedId(r))
        THEN /\ Outcome(r).res.handler = "head"
             /\ Outcome(r).res.status = 200
             /\ Outcome(r).res.itemId = NumberToString(ItemWith(items, AskedId(r)).id)
             /\ Outcome(r).res.itemName = ItemWith(items, AskedId(r)).name
             /\ Outcome(r).res.body = NoBody
        ELSE /\ Outcome(r).res.status = 404
             /\ Outcome(r).res.body = NoBody

\* The position of the item with this id.
IndexOf(its, id) == CHOOSE i \in 1..Len(its) : its[i].id = id

\* The collection without the items of this id.
Without(its, id) == SelectSeq(its, LAMBDA x : x.id # id)

\* A field the body does not have.
Absent(val) == val.t = "undefined"

\* The body {error: not_found, message: "No item with id <id>"} for the id
\* of an item, written in decimal.
NotFoundBody(id) == ErrorBody("not_found", "No item with id ", NatToDigits(id.v \div 100))

\* C11: Replace answers 404 when no item has the asked id, whatever the body,
\* and then changes nothing; when the item exists it answers 200 if name and
\* price are both valid, and then the item has the trimmed name and the
\* numeric price, the rest of the collection is as before and the body is
\* the updated item; in every other case it answers 400.
ReplaceContract ==
    \A r \in ReplaceRequests :
        IF ~Present(items, AskedId(r))
        THEN /\ Outcome(r).res.status = 404
             /\ Outcome(r).items = items
        ELSE IF ValidName(r.body.name) /\ ValidPrice(r.body.price)
        THEN /\ Outcome(r).res.status = 200
             /\ Outcome(r).items =
                    [items EXCEPT ![IndexOf(items, AskedId(r))] =
                        Item(AskedId(r), JSTrim(r.body.name.s), ToNumber(r.body.price))]
             /\ Outcome(r).res.body.kind = "item"
             /\ Outcome(r).res.body.item = ItemWith(Outcome(r).items, AskedId(r))
        ELSE Outcome(r).res.status = 400

\* The fields of a PartialUpdate body that are there are valid.
PresentFieldsValid(body) ==
    /\ Absent(body.name) \/ ValidName(body.name)
    /\ Absent(body.price) \/ ValidPrice(body.price)

\* What a PartialUpdate with this body makes of an item.
Patched(it, body) ==
    Item(it.id,
         IF Absent(body.name) THEN it.name ELSE JSTrim(body.name.s),
         IF Absent(body.price) THEN it.price ELSE ToNumber(body.price))

\* C12: a PartialUpdate of an item that exists answers 200 exactly when every
\* field of name and price that the body has is valid by the rule of Create;
\* it then changes, of that item only, the fields the body has (to the
\* trimmed name, to the numeric price) and keeps the others, so that a body
\* with neither field answers 200 and changes nothing; the body of the
\* answer is the item as it is afterwards.
PartialUpdateEffect ==
    \A r \in PartialUpdateRequests :
        Present(items, AskedId(r)) =>
            \A out \in {Outcome(r)} :
                /\ out.res.status = 200 <=> PresentFieldsValid(r.body)
                /\ out.res.status = 200 =>
                       /\ out.items =
                              [items EXCEPT ![IndexOf(items, AskedId(r))] = Patched(@, r.body)]
                       /\ out.res.body.kind = "item"
                       /\ out.res.body.item = Patched(ItemWith(items, AskedId(r)), r.body)
                /\ (Absent(r.body.name) /\ Absent(r.body.price)) =>
                       /\ out.res.status = 200
                       /\ out.items = items

\* The first seed item has its name and a price a PartialUpdate gave it, a
\* created item has the price a PartialUpdate gave it, and PartialUpdates
\* with a name only, a price only and neither succeed now.
PartialUpdateEffectWitness ==
    /\ Present(items, Int2Num(1))
    /\ ItemWith(items, Int2Num(1)).name = Notebook
    /\ ItemWith(items, Int2Num(1)).price = Fin(275)
    /\ \E r \in PartialUpdateRequests :
          /\ ~Absent(r.body.name) /\ Absent(r.body.price)
          /\ Outcome(r).res.status = 200
    /\ \E r \in PartialUpdateRequests :
          /\ Absent(r.body.name) /\ ~Absent(r.body.price)
          /\ Outcome(r).res.status = 200
    /\ \E r \in PartialUpdateRequests :
          /\ Absent(r.body.name) /\ Absent(r.body.price)
          /\ Outcome(r).res.status = 200

\* C13: Delete answers 404 and changes nothing when no item has the asked id;
\* when one has, it removes that item and no other (the collection is one
\* shorter), answers 204 with no body, and a Get of that id served next
\* answers 404 with the message "No item with id <id>".
DeleteEffect ==
    \A r \in DeleteRequests :
        \A out \in {Outcome(r)} :
            IF ~Present(items, AskedId(r))
            THEN /\ out.res.status = 404
                 /\ out.items = items
                 /\ out.nextId = nextId
            ELSE /\ out.res.status = 204
                 /\ out.res.body = NoBody
                 /\ Len(out.items) = Len(items) - 1
                 /\ out.items = Without(items, AskedId(r))
                 /\ out.nextId = nextId
                 /\ \A g \in GetRequests :
                        AskedId(g) = AskedId(r) =>
                            \A next \in {Serve(out.items, out.nextId, g)} :
                                /\ next.res.status = 404
                                /\ next.res.body = NotFoundBody(AskedId(r))

\* An item has been deleted already, and a Delete of an item that is not the
\* last of the collection, and one of an id no item has, are at hand.
DeleteEffectWitness ==
    /\ deletes > 0
    /\ Len(items) >= 2
    /\ \E r \in DeleteRequests : AskedId(r) = items[1].id
    /\ \E r \in DeleteRequests : AskedId(r) \in deleted

\* C14: once a Delete has removed an item, in every state that follows, every
\* Get and every Delete of its id answer 404 with the body
\* {error: not_found, message: "No item with id <id>"}, and no item has
\* that id, whatever was created or updated since.
DeletedStaysGone ==
    \A d \in deleted :
        /\ ~Present(items, d)
        /\ \A r \in GetRequests \cup DeleteRequests :
               AskedId(r) = d =>
                   \A out \in {Outcome(r)} :
                       /\ out.res.status = 404
                       /\ out.res.body = NotFoundBody(d)

\* A seed item and a created item have been deleted, and items were created
\* after a deletion.
DeletedStaysGoneWitness ==
    /\ deleted \cap SeedIds # {}
    /\ deleted \ SeedIds # {}
    /\ \E i \in 1..Len(items) : \E d \in deleted : GreaterThan(items[i].id, d)
    /\ \E r \in GetRequests : AskedId(r) \in deleted

\* C15: List answers 200 with the whole collection as items and its length
\* as count, and the count is 2 plus the number of Creates answered 201
\* minus the number of Deletes answered 204.
ListCount ==
    \A r \in ListRequests :
        \A out \in {Outcome(r)} :
            /\ out.res.status = 200
            /\ out.res.body.kind = "list"
            /\ out.res.body.items = items
            /\ out.res.body.count = Len(items)
            /\ out.res.body.count = 2 + creates - deletes

\* Items were created and deleted, a seed item among the deleted.
ListCountWitness ==
    /\ creates >= 2
    /\ deletes >= 2
    /\ deleted \cap SeedIds # {}
    /\ Len(items) >= 1

\* Every request of the model.
AllRequests ==
    RootRequests \cup PageRequests \cup EchoRequests \cup ListRequests \cup GetRequests
    \cup HeadRequests \cup CreateRequests \cup ReplaceRequests \cup PartialUpdateRequests
    \cup DeleteRequests \cup OptionsRequests \cup UnmatchedRequests

\* The formats of the index in the order GET / tries them: the media type,
\* the range it belongs to, and the index in that format.
Formats == << <<"text/plain", "text/*", "index-text">>,
              <<"application/json", "application/*", "index-json">>,
              <<"application/xml", "application/*", "index-xml">>,
              <<"text/html", "text/*", "index-html">> >>

\* The Accept header admits the format: there is no header, or it lists the
\* type, the range of the type or */*.
Admits(accept, f) == accept = {} \/ accept \cap {f[1], f[2], "*/*"} # {}

Admitted(accept) == {i \in 1..Len(Formats) : Admits(accept, Formats[i])}

\* C16: GET / answers 200 in the first of the formats text/plain,
\* application/json, application/xml, text/html that the Accept header
\* admits, and 406 exactly when it admits none: Accept: application/json
\* gives the JSON index, Accept: application/x-foo gives 406.
RootNegotiation ==
    /\ \A r \in RootRequests :
          \A out \in {Outcome(r)} :
              IF Admitted(r.accept) = {}
              THEN out.res.status = 406
              ELSE /\ out.res.status = 200
                   /\ out.res.ctype = Formats[FirstOf(Admitted(r.accept))][1]
                   /\ out.res.body.kind = Formats[FirstOf(Admitted(r.accept))][3]
    /\ \A r \in RootRequests :
          r.accept = {"application/json"} =>
              Outcome(r).res.status = 200 /\ Outcome(r).res.body.kind = "index-json"
    /\ \A r \in RootRequests :
          r.accept = {"application/x-foo"} => Outcome(r).res.status = 406

\* The store has changed since the start, and there are requests answered
\* in each of the four formats and one answered 406.
RootNegotiationWitness ==
    /\ items # SeedItems
    /\ \A i \in 1..Len(Formats) :
          \E r \in RootRequests :
              Outcome(r).res.status = 200 /\ Outcome(r).res.body.kind = Formats[i][3]
    /\ \E r \in RootRequests : Outcome(r).res.status = 406

\* The handlers that set X-Demo, and the value each sets.
DemoHandlers == {"echo", "list", "get", "create", "put", "patch", "delete", "options"}

DemoName(h) ==
    CASE h = "echo" -> "echo"
      [] h = "list" -> "items-list"
      [] h = "get" -> "items-get"
      [] h = "create" -> "items-create"
      [] h = "put" -> "items-put"
      [] h = "patch" -> "items-patch"
      [] h = "delete" -> "items-delete"
      [] h = "options" -> "items-options"
      [] OTHER -> ""

\* C17, as stated: every response of the root, page, echo, list,
\* get, head, create, replace, partial-update, delete and options handlers,
\* on success and on failure, carries an X-Demo header.
EveryHandlerSetsDemo ==
    \A r \in AllRequests :
        Outcome(r).res.handler # "default" => Outcome(r).res.demo # ""

\* C17, amended: a response carries X-Demo exactly when it is a success
\* response (200, 201, 204) of the echo, list, get, create, replace,
\* partial-update, delete or options handler, and the header then names that
\* handler; the error responses of these handlers and all responses of the
\* root and page handlers and of the HEAD handler carry none.
DemoOnSuccessOnly ==
    /\ \A r \in AllRequests :
          \A out \in {Outcome(r)} :
              out.res.demo =
                  IF out.res.handler \in DemoHandlers /\ out.res.status \in {200, 201, 204}
                  THEN DemoName(out.res.handler)
                  ELSE ""
    /\ \A r \in HeadRequests : headHandler(items, nextId, r).res.demo = ""

\* Items were created and deleted, and a success and a failure of Create,
\* of Get and of Delete are at hand.
DemoOnSuccessOnlyWitness ==
    /\ creates > 0 /\ deletes > 0
    /\ \E r \in CreateRequests : Outcome(r).res.status = 201
    /\ \E r \in CreateRequests : Outcome(r).res.status = 400
    /\ \E r \in GetRequests : Outcome(r).res.status = 200
    /\ \E r \in GetRequests : Outcome(r).res.status = 404
    /\ \E r \in DeleteRequests : Outcome(r).res.status = 204
    /\ \E r \in DeleteRequests : Outcome(r).res.status = 404

\* C18: every request, whatever its method, path, id and parsed body, is
\* answered 200, 201, 204, 400, 404 or 406: no handler throws and no answer
\* is a 5xx.
NoServerFault ==
    \A r \in AllRequests : Outcome(r).res.status \in {200, 201, 204, 400, 404, 406}

\* C20, as stated: a request for which no route is registered is
\* answered 404 with a JSON body whose error is not_found, and the
\* collection and the counter are as before.
UnmatchedJsonBody ==
    \A r \in UnmatchedRequests :
        /\ Outcome(r).res.status = 404
        /\ Outcome(r).res.body.kind = "error"
        /\ Outcome(r).res.body.error = "not_found"
        /\ Outcome(r).items = items
        /\ Outcome(r).nextId = nextId

\* C20, amended: a request for which no route is registered is answered 404,
\* declared as JSON, with the body {error: not_found, message: "Route not
\* found"} unless its method is HEAD, whose answer has no body; the
\* collection and the counter are as before.
UnmatchedNotFound ==
    \A r \in UnmatchedRequests :
        \A out \in {Outcome(r)} :
            /\ out.res.status = 404
            /\ out.res.ctype = "application/json"
            /\ out.res.body =
                   (IF r.method = "HEAD"
                    THEN NoBody
                    ELSE ErrorBody("not_found", "Route not found", <<>>))
            /\ out.items = items
            /\ out.nextId = nextId

\* The store has changed since the start, and among the requests no route is
\* registered for are PUT /items and DELETE /items, one carrying a body that
\* a Create would accept, and a HEAD request.
UnmatchedNotFoundWitness ==
    /\ creates > 0
    /\ \E r \in UnmatchedRequests : r.method = "DELETE" /\ r.id = <<>>
    /\ \E r \in UnmatchedRequests :
          /\ r.method = "PUT" /\ r.id = <<>>
          /\ ValidName(r.body.name) /\ ValidPrice(r.body.price)
    /\ \E r \in UnmatchedRequests : r.method = "HEAD"

\* The connections whose Create was answered 201 and whose response is on
\* its way.
InFlightCreates == {c \in Clients : conns[c].pc = "done" /\ IsCreated(conns[c].res)}

\* No two Creates in flight were given the same id.
DistinctCreateIds ==
    \A c1, c2 \in InFlightCreates :
        c1 # c2 => conns[c1].res.body.item.id # conns[c2].res.body.item.id

\* A step in which the callback of a request ran is the serving of that
\* request, whole, on the collection and counter the step found.
RunIsServe ==
    \A c \in Clients :
        (conns[c].pc = "parsing" /\ conns'[c].pc = "done") =>
            /\ items' = Serve(items, nextId, conns[c].req).items
            /\ nextId' = Serve(items, nextId, conns[c].req).nextId
            /\ conns'[c].res = Serve(items, nextId, conns[c].req).res

\* The collection and the counter change in such steps only, one callback
\* a step.
ChangeIsOneRun ==
    (items' # items \/ nextId' # nextId) =>
        Cardinality({c \in Clients : conns[c].pc = "parsing" /\ conns'[c].pc = "done"}) = 1

\* C19: with requests overlapping, every step that reads or writes the
\* collection or the counter is one callback run from start to end on the
\* state it finds, so every run of the server is the serial run of its
\* callbacks in the order they ran; no two Creates in flight are given the
\* same id, and the ids of the collection stay distinct.
HandlersAtomic ==
    /\ [](DistinctCreateIds /\ UniqueIds)
    /\ [][RunIsServe /\ ChangeIsOneRun]_vars

\* Two Creates that overlapped have both been answered 201 and neither
\* response has reached its client yet.
HandlersAtomicWitness ==
    /\ Cardinality(InFlightCreates) >= 2
    /\ \E c \in InFlightCreates : conns[c].seen = SeedNextId /\ conns[c].res.body.item.id # SeedNextId

\* C21: OPTIONS /items is answered 204 with Allow: GET,POST,OPTIONS and no
\* body, in every state.
OptionsAnswer ==
    \A r \in OptionsRequests :
        \A out \in {Outcome(r)} :
            /\ out.res.status = 204
            /\ out.res.allow = "GET,POST,OPTIONS"
            /\ out.res.body = NoBody

\* Items have been created and deleted, and an OPTIONS /items is answered.
OptionsAnswerWitness ==
    /\ creates > 0 /\ deletes > 0
    /\ \E r \in OptionsRequests : Outcome(r).res.handler = "options"

\* The safe requests: every GET, HEAD /items/:id, OPTIONS /items, and /echo
\* with any method and body.
SafeRequests ==
    RootRequests \cup PageRequests \cup ListRequests \cup GetRequests \cup HeadRequests
    \cup OptionsRequests \cup EchoRequests

\* C22: a safe request leaves the collection and the counter exactly as
\* they were.
SafeRequestsKeepState ==
    \A r \in SafeRequests :
        \A out \in {Outcome(r)} :
            /\ out.items = items
            /\ out.nextId = nextId

\* The store is not the initial one, and there are a Get that finds its
\* item, one that does not, and an echo of a POST with a body that a Create
\* would accept.
SafeRequestsKeepStateWitness ==
    /\ creates > 0 /\ Len(items) >= 2
    /\ \E r \in GetRequests : Outcome(r).res.status = 200
    /\ \E r \in GetRequests : Outcome(r).res.status = 404
    /\ \E r \in EchoRequests :
          r.method = "POST" /\ ValidName(r.body.name) /\ ValidPrice(r.body.price)

\* C23: the same PUT /items/:id, or the same DELETE /items/:id, served twice
\* in a row leaves the collection and the counter as serving it once does;
\* the same valid POST /items served twice creates two items with different
\* ids.
PutDeleteIdempotent ==
    /\ \A r \in ReplaceRequests \cup DeleteRequests :
          \A once \in {Outcome(r)} :
              \A twice \in {Serve(once.items, once.nextId, r)} :
                  /\ twice.items = once.items
                  /\ twice.nextId = once.nextId
    /\ \A r \in CreateRequests :
          \A once \in {Outcome(r)} :
              once.res.status = 201 =>
                  \A twice \in {Serve(once.items, once.nextId, r)} :
                      /\ twice.res.status = 201
                      /\ Len(twice.items) = Len(items) + 2
                      /\ twice.res.body.item.id # once.res.body.item.id

\* A Replace that changes a created item, a Delete that removes an item and
\* a Create that is accepted are at hand.
PutDeleteIdempotentWitness ==
    /\ \E r \in ReplaceRequests :
          /\ AskedId(r) \notin SeedIds
          /\ Outcome(r).res.status = 200
          /\ Outcome(r).items # items
    /\ \E r \in DeleteRequests : Outcome(r).res.status = 204
    /\ \E r \in CreateRequests : Outcome(r).res.status = 201

\* The name or the price of the body is not valid: for a PartialUpdate, one
\* that is there; for Create and Replace, either.
InvalidInput(r) ==
    IF r.method = "PATCH"
    THEN ~PresentFieldsValid(r.body)
    ELSE ~(ValidName(r.body.name) /\ ValidPrice(r.body.price))

\* The request names an item by an id that no item has.
UnknownId(r) ==
    /\ r.base = "items" /\ r.id # <<>>
    /\ r.method \in {"GET", "HEAD", "PUT", "PATCH", "DELETE"}
    /\ ~Present(items, AskedId(r))

\* C24: there are two kinds of error and no other.  Every 400 answers a
\* Create, a Replace or a PartialUpdate whose name or price is not valid and
\* carries the JSON body {error: bad_request, message}; every 404 answers a
\* request for an id no item has or a request no route is registered for
\* and carries the JSON body {error: not_found, message}, except that the
\* answer to a HEAD request has no body; and no response reports an error
\* of another kind (the 406 of the index, which has no body, is none).
TwoErrorKinds ==
    \A r \in AllRequests :
        \A out \in {Outcome(r)} :
            /\ out.res.status = 400 =>
                   /\ out.res.handler \in {"create", "put", "patch"}
                   /\ InvalidInput(r)
                   /\ out.res.body.kind = "error"
                   /\ out.res.body.error = "bad_request"
                   /\ out.res.body.message.tmpl # ""
            /\ out.res.status = 404 =>
                   /\ UnknownId(r) \/ r \in UnmatchedRequests
                   /\ IF r.method = "HEAD"
                      THEN out.res.body = NoBody
                      ELSE /\ out.res.body.kind = "error"
                           /\ out.res.body.error = "not_found"
                           /\ out.res.body.message.tmpl # ""
            /\ out.res.body.kind = "error" =>
                   \/ out.res.body.error = "bad_request" /\ out.res.status = 400
                   \/ out.res.body.error = "not_found" /\ out.res.status = 404
            /\ out.res.status >= 400 => out.res.status \in {400, 404, 406}

\* C25: a PartialUpdate answered 400 leaves the collection as it was, so a
\* body with a valid name and an invalid price changes neither the name nor
\* the price of the item.
PatchRejectedUnchanged ==
    \A r \in PartialUpdateRequests :
        \A out \in {Outcome(r)} :
            out.res.status = 400 => out.items = items

\* C26: a Create or a Replace answered 400, and every request answered 404,
\* leaves the collection and the counter as they were; a Create that is
\* accepted after a rejected one gets the id it would have got without it.
RejectedKeepsState ==
    /\ \A r \in AllRequests :
          \A out \in {Outcome(r)} :
              (\/ out.res.status = 400 /\ out.res.handler \in {"create", "put"}
               \/ out.res.status = 404) =>
                  /\ out.items = items
                  /\ out.nextId = nextId
    /\ \A r \in CreateRequests :
          \A out \in {Outcome(r)} :
              out.res.status = 400 =>
                  \A g \in CreateRequests :
                      g.body.price = Num(Fin(275)) =>
                          \A first \in {Outcome(g)} :
                              first.res.status = 201 =>
                                  Serve(out.items, out.nextId, g).res.body.item.id
                                      = first.res.body.item.id

\* Items have been created and deleted, and there are a rejected Create, a
\* rejected Replace of an item that exists, a Delete of an id no item has
\* and a Create that is accepted.
RejectedKeepsStateWitness ==
    /\ creates > 0 /\ deletes > 0 /\ Len(items) >= 2
    /\ \E r \in CreateRequests : Outcome(r).res.status = 400
    /\ \E r \in ReplaceRequests : Outcome(r).res.status = 400
    /\ \E r \in DeleteRequests : Outcome(r).res.status = 404
    /\ \E r \in CreateRequests : Outcome(r).res.status = 201

\* C27: a Replace, a PartialUpdate or a Delete of the id i leaves every item
\* of another id as it was (id, name, price) and in the same order; a
\* Replace and a PartialUpdate also leave the length of the collection, the
\* position of every id and the counter as they were.
OthersUntouched ==
    \A r \in ReplaceRequests \cup PartialUpdateRequests \cup DeleteRequests :
        \A out \in {Outcome(r)} :
            /\ Without(out.items, AskedId(r)) = Without(items, AskedId(r))
            /\ r.method \in {"PUT", "PATCH"} =>
                   /\ Len(out.items) = Len(items)
                   /\ IdsOf(out.items) = IdsOf(items)
                   /\ out.nextId = nextId

\* The collection has three items or more, and there are a Replace and a
\* PartialUpdate that change the second item and a Delete that removes it.
OthersUntouchedWitness ==
    /\ Len(items) >= 3
    /\ \E r \in ReplaceRequests :
          AskedId(r) = items[2].id /\ Outcome(r).items # items
    /\ \E r \in PartialUpdateRequests :
          AskedId(r) = items[2].id /\ Outcome(r).items # items
    /\ \E r \in DeleteRequests :
          AskedId(r) = items[2].id /\ Outcome(r).res.status = 204

\* The counter is above the id of every item of the collection.
CounterAboveIds == \A i \in 1..Len(items) : GreaterThan(nextId, items[i].id)

\* A step in which a Create was answered 201 adds one to the counter, and
\* any other step leaves it as it was.
CounterStep ==
    nextId' = IF creates' = creates + 1 THEN Fin(nextId.v + 100) ELSE nextId

\* C28: in every reachable state the counter is strictly greater than the
\* id of every item; it never decreases, it grows by exactly one with each
\* Create that is answered 201 and no other request changes it.
CounterRule ==
    /\ []CounterAboveIds
    /\ [][CounterStep /\ nextId'.v >= nextId.v]_vars

\* Two items have been created and the one created last has been deleted:
\* the counter is more than one above the largest id of the collection.
CounterRuleWitness ==
    /\ creates >= 2
    /\ Fin(nextId.v - 100) \in deleted
    /\ \A i \in 1..Len(items) : items[i].id.v < nextId.v - 100

\* i before j in its means a smaller id.
Ascending(its) == \A i, j \in 1..Len(its) : i < j => its[i].id.v < its[j].id.v

\* C29: the collection is in the order its items were inserted, which is
\* the strictly ascending order of their ids, and List returns the items in
\* that order: never a larger id before a smaller one.
AscendingOrder ==
    /\ Ascending(items)
    /\ \A i \in 1..Len(items) : items[i].id.k = "fin"
    /\ \A r \in ListRequests :
          \A out \in {Outcome(r)} :
              /\ out.res.body.items = items
              /\ Ascending(out.res.body.items)

\* Items were created, one between two others was deleted and a later one
\* replaced, and List returns three items or more.
AscendingOrderWitness ==
    /\ creates >= 2 /\ Len(items) >= 3
    /\ \E d \in deleted : \E i, j \in 1..Len(items) : items[i].id.v < d.v /\ d.v < items[j].id.v
    /\ \E c \in IdSet(items) \ (SeedIds \cup {k.id : k \in created}) : TRUE
    /\ \E r \in ListRequests : Outcome(r).res.body.count >= 3

\* Every control path of every callback, in the state at hand, sends one
\* response: none returns without sending, none sends twice.
OneSendOnEveryPath == \A r \in PathRequests : Serve(items, nextId, r).res.sends = 1

\* A response that has been sent was sent once.
AnsweredOnce == \A c \in Clients : conns[c].pc = "done" => conns[c].res.sends = 1

\* C30: every request that reaches a callback or the default 404 is
\* answered in the end, and once: a request that has arrived leads to its
\* response, every control path sends one response, and no response is sent
\* a second time.
EveryRequestAnswered ==
    /\ [](OneSendOnEveryPath /\ AnsweredOnce)
    /\ \A c \in Clients : (conns[c].pc = "parsing") ~> (conns[c].pc = "done")

\* Items have been created and deleted, a request whose callback threw has
\* its answer, and the requests at hand end in every status the server has.
EveryRequestAnsweredWitness ==
    /\ creates > 0 /\ deletes > 0
    /\ \E c \in Clients :
          /\ conns[c].pc = "done"
          /\ conns[c].res.status = 500
          /\ conns[c].res.sends = 1
    /\ {Serve(items, nextId, r).res.status : r \in PathRequests}
          = {200, 201, 204, 400, 404, 406, 500}

====
